---- MODULE Spec2Model ----
(***************************************************************************)
(* Service status dashboard (streamlit_app.py): the three status parsers   *)
(* (generic Statuspage, GCP incident list, OpenAI component-keyed), the    *)
(* indicator mapper, the refresh loop over the configured services and     *)
(* the overall banner.                                                     *)
(*                                                                         *)
(* Encoding of JSON and Python values                                      *)
(*   - a text is a sequence of non-empty string pieces (single characters  *)
(*     for payload texts, whole literals for the program's own messages);  *)
(*     the empty text is <<>>;                                             *)
(*   - an optional dict member is <<>> (key absent) or <<v>> (key present);*)
(*   - a dict is a record of optional members; it is empty (falsy) when    *)
(*     every member is absent;                                             *)
(*   - raw indicator tokens and GCP component names are strings, compared  *)
(*     by equality only.                                                   *)
(***************************************************************************)
EXTENDS Integers, Sequences, FiniteSets, TLC

VARIABLES
    services_data,  \* st.session_state.services_data: name -> observation
    last_refresh,   \* st.session_state.last_refresh: <<>> (None) or <<time>>
    pc,             \* position of the script run
    i,              \* loop index of refresh_all_services
    caller,         \* call site refresh_all_services returns to
    clicked,        \* value of st.button("Refresh All") in this run
    now,            \* the wall clock, in refresh cycles started
    failed,         \* the service of the last iteration, if its fetch failed in transport
    banner,         \* the overall banner rendered by this run, <<>> if none
    ppc,            \* position of a parser call made on its own
    call,           \* the parser call: function and arguments
    ret,            \* its return value, <<>> while running
    active_inc,     \* check_gcp_component: the list built by the loop
    cur,            \* check_gcp_component: the incident of this iteration
    raised          \* check_gcp_component: the loop body raised

vars ==
    <<services_data, last_refresh, pc, i, caller, clicked, now, failed,
      banner, ppc, call, ret, active_inc, cur, raised>>

refreshVars ==
    <<services_data, last_refresh, pc, i, caller, clicked, now, failed, banner>>

parserVars ==
    <<ppc, call, ret, active_inc, cur, raised>>

---------------------------------------------------------------------------
(* Python and JSON primitives *)

Absent ==
    <<>>

Some(v) ==
    <<v>>

\* dict.get(key, default)
Get(opt, default) ==
    IF opt = <<>> THEN default ELSE opt[1]

\* dict.get(key) or rest, for a text or list member (None, "" and [] are falsy)
OrSeq(opt, rest) ==
    IF opt # <<>> /\ Len(opt[1]) > 0 THEN opt[1] ELSE rest

\* dict.get(key) or rest, for a token member (None and "" are falsy)
OrTok(opt, rest) ==
    IF opt # <<>> /\ opt[1] # "" THEN opt[1] ELSE rest

\* needle in hay, for texts
Contains(needle, hay) ==
    \E k \in 0..(Len(hay) - Len(needle)) :
        SubSeq(hay, k + 1, k + Len(needle)) = needle

Upper ==
    <<"A", "B", "C", "D", "E", "F", "G", "H", "I", "J", "K", "L", "M",
      "N", "O", "P", "Q", "R", "S", "T", "U", "V", "W", "X", "Y", "Z">>

LowerOf ==
    <<"a", "b", "c", "d", "e", "f", "g", "h", "i", "j", "k", "l", "m",
      "n", "o", "p", "q", "r", "s", "t", "u", "v", "w", "x", "y", "z">>

LowerChar(c) ==
    IF \E k \in 1..Len(Upper) : Upper[k] = c
    THEN LowerOf[CHOOSE k \in 1..Len(Upper) : Upper[k] = c]
    ELSE c

\* str.lower()
Lower(text) ==
    [k \in 1..Len(text) |-> LowerChar(text[k])]

IsSpace(c) ==
    c \in {" ", "\t", "\n"}

RECURSIVE LStrip(_)
LStrip(text) ==
    IF text # <<>> /\ IsSpace(Head(text)) THEN LStrip(Tail(text)) ELSE text

RECURSIVE RStrip(_)
RStrip(text) ==
    IF text # <<>> /\ IsSpace(text[Len(text)])
    THEN RStrip(SubSeq(text, 1, Len(text) - 1))
    ELSE text

\* str.strip()
Strip(text) ==
    RStrip(LStrip(text))

\* the text of an exception, f"{e}"
ExcText ==
    "<exception text>"

OPERATIONAL ==
    "operational"

DEGRADED ==
    "degraded"

OUTAGE ==
    "outage"

CanonicalStatus ==
    {OPERATIONAL, DEGRADED, OUTAGE}

---------------------------------------------------------------------------
(* requests.get and the decoding of its response *)

NoTimeout ==
    0

FetchTimeout ==
    10

Response(code, body) ==
    [kind |-> "response", code |-> code, body |-> body]

Raise ==
    [kind |-> "raise", code |-> 0, body |-> Absent]

Hang ==
    [kind |-> "hang", code |-> 0, body |-> Absent]

\* What requests.get(url, timeout=timeout) can do when the provider serves one
\* of `bodies`: answer 200 with a JSON body, answer 200 with a body that is not
\* JSON, answer non-2xx (with or without a JSON error document `errdoc`), raise
\* (a network failure, or requests.Timeout once `timeout` has passed without
\* an answer), or, with no timeout, block for ever on a provider that never
\* answers.
requests_get(bodies, errdoc, timeout) ==
    {Response(200, Some(b)) : b \in bodies}
        \cup {Response(200, Absent), Response(503, Absent), Response(503, Some(errdoc))}
        \cup {Raise}
        \cup (IF timeout = NoTimeout THEN {Hang} ELSE {})

\* the fetch failed in transport: network failure, timeout or non-2xx answer
TransportFailed(outcome) ==
    outcome.kind = "raise"
        \/ (outcome.kind = "response" /\ outcome.code \notin 200..299)

\* resp.raise_for_status() raises
RaiseForStatusRaises(outcome) ==
    outcome.code \notin 200..299

\* resp.json() raises
JsonRaises(outcome) ==
    outcome.body = Absent

---------------------------------------------------------------------------
(* map_indicator and parse_indicator_block *)

\* map_indicator with the narrower table of parse_indicator_block
map_indicator_narrow(indicator) ==
    IF indicator = "none" THEN OPERATIONAL
    ELSE IF indicator \in {"minor", "major"} THEN DEGRADED
    ELSE OUTAGE

map_indicator(indicator) ==
    IF indicator \in {"none", "operational"} THEN OPERATIONAL
    ELSE IF indicator \in {"minor", "major", "partial_outage"} THEN DEGRADED
    ELSE OUTAGE

\* {}: a status block with no member
EmptyBlock ==
    [indicator |-> Absent, status |-> Absent, description |-> Absent]

\* inc.get("name") or inc.get("shortlink") or "Unnamed incident"
StatuspageIncidentName(inc) ==
    OrSeq(inc.name, OrSeq(inc.shortlink, <<"Unnamed incident">>))

parse_indicator_block(data) ==
    LET block == Get(data.status, EmptyBlock)
        ind == Get(block.indicator, "none")
        desc == Get(block.description, <<>>)
        status ==
            IF ind = "none" THEN OPERATIONAL
            ELSE IF ind \in {"minor", "major"} THEN DEGRADED
            ELSE OUTAGE
        incs == Get(data.incidents, <<>>)
        incidents == [k \in 1..Len(incs) |-> StatuspageIncidentName(incs[k])]
    IN  <<status, desc, incidents>>

---------------------------------------------------------------------------
(* check_gcp_component *)

NorthAmerica ==
    <<"N", "o", "r", "t", "h", " ", "A", "m", "e", "r", "i", "c", "a">>

\* an ISO timestamp: a local time and its UTC offset
Timestamp(local, offset) ==
    [local |-> local, offset |-> offset]

\* date_parser.isoparse(end_ts), as the UTC instant aware datetimes compare by
isoparse(ts) ==
    ts.local - ts.offset

\* [c.get("name", "") for c in inc.get("components", [])]
GcpComponentNames(inc) ==
    LET cs == Get(inc.components, <<>>)
    IN  [k \in 1..Len(cs) |-> Get(cs[k].name, "")]

\* [u.get("text", "") for u in inc.get("updates", [])]
GcpUpdateTexts(inc) ==
    LET us == Get(inc.updates, <<>>)
    IN  [k \in 1..Len(us) |-> Get(us[k].text, <<>>)]

\* GcpRegionOk with all() for any(): true of an incident with no update
GcpRegionOk_all(inc) ==
    LET desc == Get(inc.external_desc, <<>>)
        updates == GcpUpdateTexts(inc)
    IN  Contains(NorthAmerica, desc)
            \/ \A k \in 1..Len(updates) : Contains(NorthAmerica, updates[k])

\* "North America" in desc or any("North America" in u for u in updates)
GcpRegionOk(inc) ==
    LET desc == Get(inc.external_desc, <<>>)
        updates == GcpUpdateTexts(inc)
    IN  Contains(NorthAmerica, desc)
            \/ \E k \in 1..Len(updates) : Contains(NorthAmerica, updates[k])

\* GcpEnded with <= for <: an incident ending now is skipped too
GcpEnded_inclusive(inc, t) ==
    inc.end # Absent /\ isoparse(inc.end[1]) <= t

\* if end_ts and date_parser.isoparse(end_ts) < now: continue
GcpEnded(inc, t) ==
    inc.end # Absent /\ isoparse(inc.end[1]) < t

\* component_name in comps
GcpComponentListed(inc, component_name) ==
    LET comps == GcpComponentNames(inc)
    IN  \E k \in 1..Len(comps) : comps[k] = component_name

\* One iteration of `for inc in data`: the list after it, and whether the body
\* raised (updates[-1] on an empty list is an IndexError).
GcpLoopBody(active, inc, component_name, t) ==
    LET updates == GcpUpdateTexts(inc)
        desc == OrSeq(inc.external_desc, <<>>)
    IN  IF GcpEnded(inc, t)
        THEN [raised |-> FALSE, active_inc |-> active]
        ELSE IF GcpComponentListed(inc, component_name) /\ GcpRegionOk(inc)
        THEN IF desc # <<>>
             THEN [raised |-> FALSE, active_inc |-> Append(active, desc)]
             ELSE IF updates = <<>>
             THEN [raised |-> TRUE, active_inc |-> active]
             ELSE IF updates[Len(updates)] # <<>>
             THEN [raised |-> FALSE,
                   active_inc |-> Append(active, updates[Len(updates)])]
             ELSE [raised |-> FALSE,
                   active_inc |-> Append(active, <<"No details">>)]
        ELSE [raised |-> FALSE, active_inc |-> active]

\* except Exception as e: return "outage", f"Error fetching GCP incidents: {e}", []
GcpError ==
    <<OUTAGE, <<"Error fetching GCP incidents: ", ExcText>>, <<>>>>

\* the two returns after the loop
GcpResult(component_name, active) ==
    IF active # <<>>
    THEN <<OUTAGE,
           <<ToString(Len(active)), " incident(s) affecting ", component_name,
             " in North America">>,
           active>>
    ELSE <<OPERATIONAL,
           <<"No active North America incidents for ", component_name>>,
           <<>>>>

\* the whole loop over a decoded incident list
RECURSIVE GcpLoop(_, _, _, _)
GcpLoop(active, data, component_name, t) ==
    IF data = <<>>
    THEN [raised |-> FALSE, active_inc |-> active]
    ELSE LET r == GcpLoopBody(active, Head(data), component_name, t)
         IN  IF r.raised THEN r
             ELSE GcpLoop(r.active_inc, Tail(data), component_name, t)

\* check_gcp_component(component_name, incidents_url), given what the fetch did
\* and the time datetime.now(timezone.utc) returns
check_gcp_component(component_name, outcome, t) ==
    IF outcome.kind # "response" \/ RaiseForStatusRaises(outcome) \/ JsonRaises(outcome)
    THEN GcpError
    ELSE LET r == GcpLoop(<<>>, outcome.body[1], component_name, t)
         IN  IF r.raised THEN GcpError
             ELSE GcpResult(component_name, r.active_inc)

---------------------------------------------------------------------------
(* check_openai_component *)

\* {}: data.get("page", {}) when the payload has no page
EmptyPage ==
    [components |-> Absent, incidents |-> Absent, status |-> Absent]

\* a dict is truthy when it has a member
BlockTruthy(block) ==
    block.indicator # Absent \/ block.status # Absent \/ block.description # Absent

\* OpenAIComponents without the fall back to page: data.get("components", [])
OpenAIComponents_toplevel(data) ==
    Get(data.components, <<>>)

\* data.get("components") or data.get("page", {}).get("components", [])
OpenAIComponents(data) ==
    OrSeq(data.components, Get(Get(data.page, EmptyPage).components, <<>>))

\* data.get("incidents") or data.get("page", {}).get("incidents", [])
OpenAIIncidents(data) ==
    OrSeq(data.incidents, Get(Get(data.page, EmptyPage).incidents, <<>>))

\* comp_key.lower() in c.get("name", "").lower()
OpenAINameMatches(comp_key, c) ==
    Contains(Lower(comp_key), Lower(Get(c.name, <<>>)))

\* next((c for c in components if ...), None): the index of the first match, 0 if none
OpenAIFindComponent(comp_key, components) ==
    LET hits == {k \in 1..Len(components) : OpenAINameMatches(comp_key, components[k])}
    IN  IF hits = {} THEN 0
        ELSE CHOOSE k \in hits : \A m \in hits : k <= m

\* inc.get("components") or inc.get("affected_components") or []
OpenAIAffected(inc) ==
    OrSeq(inc.components, OrSeq(inc.affected_components, <<>>))

\* comp_id in [c.get("id") for c in affected]; an absent id is None on both sides
OpenAIIncidentAffects(inc, comp_id) ==
    LET affected == OpenAIAffected(inc)
    IN  \E k \in 1..Len(affected) : affected[k].id = comp_id

RECURSIVE OpenAIActive(_, _)
OpenAIActive(incidents, comp_id) ==
    IF incidents = <<>> THEN <<>>
    ELSE LET inc == Head(incidents)
             rest == OpenAIActive(Tail(incidents), comp_id)
         IN  IF OpenAIIncidentAffects(inc, comp_id)
             THEN <<Get(inc.name, <<"Unnamed incident">>)>> \o rest
             ELSE rest

\* the branch `if comp:`
OpenAIComponentResult(comp, incidents) ==
    LET raw_ind == OrTok(comp.status, Get(comp.indicator, "none"))
        stripped == Strip(Get(comp.description, <<>>))
        desc == IF stripped # <<>> THEN stripped ELSE <<"No description available">>
    IN  <<map_indicator(raw_ind), desc, OpenAIActive(incidents, comp.id)>>

\* data.get("status") or data.get("page", {}).get("status", {})
OpenAIRootStatus(data) ==
    IF data.status # Absent /\ BlockTruthy(data.status[1])
    THEN data.status[1]
    ELSE Get(Get(data.page, EmptyPage).status, EmptyBlock)

\* the fall back to the global status block
OpenAIGlobalResult(data) ==
    LET root_status == OpenAIRootStatus(data)
        raw_ind == OrTok(root_status.indicator, Get(root_status.status, "none"))
        stripped == Strip(Get(root_status.description, <<>>))
        desc == IF stripped # <<>> THEN stripped ELSE <<"No global description">>
    IN  <<map_indicator(raw_ind), desc, <<>>>>

\* the parser proper, on a decoded payload
OpenAIParse(comp_key, data) ==
    LET components == OpenAIComponents(data)
        k == OpenAIFindComponent(comp_key, components)
    IN  IF k # 0
        THEN OpenAIComponentResult(components[k], OpenAIIncidents(data))
        ELSE OpenAIGlobalResult(data)

\* except Exception as e: return "outage", f"Error fetching/parsing OpenAI status: {e}", []
OpenAIError ==
    <<OUTAGE, <<"Error fetching/parsing OpenAI status: ", ExcText>>, <<>>>>

\* check_openai_component(comp_key, proxy_url), given what the fetch did
check_openai_component(comp_key, outcome) ==
    IF outcome.kind # "response" \/ RaiseForStatusRaises(outcome) \/ JsonRaises(outcome)
    THEN OpenAIError
    ELSE OpenAIParse(comp_key, outcome.body[1])

---------------------------------------------------------------------------
(* The payloads the parsers are run on *)

MaxIncidents ==
    2

MaxUpdates ==
    2

GcpNow ==
    1

\* sequences over S of length at most n
RECURSIVE SeqUpTo(_, _)
SeqUpTo(S, n) ==
    IF n = 0 THEN {<<>>}
    ELSE LET shorter == SeqUpTo(S, n - 1)
         IN  shorter \cup {Append(q, x) : q \in shorter, x \in S}

Tokens ==
    {"none", "operational", "minor", "major", "partial_outage", "critical",
     "major_outage", "under_maintenance", "None", ""}

OptTokens ==
    {Absent} \cup {Some(t) : t \in Tokens}

TextDown ==
    <<"d", "o", "w", "n">>

TextBlank ==
    <<" ", " ">>

TextPadded ==
    <<" ", "o", "k", " ">>

TextRegion ==
    <<"i", "n", " ">> \o NorthAmerica

TextLowerRegion ==
    <<"n", "o", "r", "t", "h", " ", "a", "m", "e", "r", "i", "c", "a">>

TextUpdateRegion ==
    NorthAmerica \o <<":", " ", "u", "p">>

OptDescriptions ==
    {Absent, Some(<<>>), Some(TextBlank), Some(TextPadded)}

\* Statuspage summary documents
StatuspageBlocks ==
    [indicator : OptTokens, status : {Absent},
     description : {Absent, Some(<<>>), Some(TextDown)}]

StatuspageIncidents ==
    [name : {Absent, Some(<<>>), Some(TextDown)},
     shortlink : {Absent, Some(<<"s", "t", "s", ".", "p", "g">>)}]

StatuspagePayloads ==
    [status : {Absent} \cup {Some(b) : b \in StatuspageBlocks},
     incidents : {Absent} \cup {Some(q) : q \in SeqUpTo(StatuspageIncidents, 1)}]

\* a JSON error document: a dict with none of the members the parsers read
StatuspageErrorDoc ==
    [status |-> Absent, incidents |-> Absent]

\* GCP incidents.json entries
GcpTargets ==
    {"Cloud Run", "Cloud Storage"}

GcpEnds ==
    {Absent, Some(Timestamp(GcpNow - 1, 0)), Some(Timestamp(GcpNow, 0)),
     Some(Timestamp(GcpNow + 1, 0)), Some(Timestamp(GcpNow, 1)),
     Some(Timestamp(GcpNow - 1, -1))}

GcpComponentLists ==
    {Absent,
     Some(<<[name |-> Some("Cloud Run")]>>),
     Some(<<[name |-> Some("Cloud Run Jobs")], [name |-> Absent]>>),
     Some(<<[name |-> Some("Cloud Storage")], [name |-> Some("Cloud Run")]>>)}

GcpDescs ==
    {Absent, Some(<<>>), Some(TextDown), Some(TextRegion)}

GcpUpdates ==
    [text : {Absent, Some(TextLowerRegion), Some(TextUpdateRegion)}]

GcpIncidents ==
    [end : GcpEnds, components : GcpComponentLists, external_desc : GcpDescs,
     updates : {Absent} \cup {Some(q) : q \in SeqUpTo(GcpUpdates, MaxUpdates)}]

\* OpenAI status documents
KeyChat ==
    <<"c", "h", "a", "t">>

KeyEmbedding ==
    <<"e", "m", "b", "e", "d", "d", "i", "n", "g">>

OpenAIKeys ==
    {KeyChat, KeyEmbedding}

NameChat ==
    <<"C", "h", "a", "t", " ", "A", "P", "I">>

NameEmbeddings ==
    <<"E", "m", "b", "e", "d", "d", "i", "n", "g", "s">>

NameOther ==
    <<"S", "o", "r", "a">>

OpenAIChatComponents ==
    [name : {Some(NameChat)}, status : OptTokens,
     indicator : {Absent, Some("minor"), Some("critical")},
     description : OptDescriptions, id : {Absent, Some(1)}]

OpenAIOtherComponents ==
    [name : {Absent, Some(NameOther), Some(NameEmbeddings)},
     status : {Some("major_outage")}, indicator : {Absent},
     description : {Some(TextDown)}, id : {Some(2)}]

OpenAIComponentLists ==
    {<<c>> : c \in OpenAIChatComponents}
        \cup {<<o, c>> : o \in OpenAIOtherComponents, c \in OpenAIChatComponents}

OpenAIUnmatchedLists ==
    {<<>>, <<[name |-> Some(NameOther), status |-> Some("major_outage"),
              indicator |-> Absent, description |-> Some(TextDown),
              id |-> Some(2)]>>}

OpenAIIncidentLists ==
    {<<>>,
     <<[name |-> Some(TextDown), components |-> Some(<<[id |-> Some(1)]>>),
        affected_components |-> Absent],
       [name |-> Absent, components |-> Absent,
        affected_components |-> Some(<<[id |-> Absent], [id |-> Some(2)]>>)]>>}

OpenAIBlocks ==
    [indicator : OptTokens,
     status : {Absent, Some("operational"), Some("major_outage")},
     description : OptDescriptions]

BlockCritical ==
    [indicator |-> Some("critical"), status |-> Absent,
     description |-> Some(TextDown)]

OpenAIPage(components, incidents, status) ==
    [components |-> components, incidents |-> incidents, status |-> status]

OpenAIData(components, incidents, status, page) ==
    [components |-> components, incidents |-> incidents, status |-> status,
     page |-> page]

\* documents in which a component can match: the lists at the top level, or
\* under page with the top-level member missing or empty
OpenAIComponentPayloads ==
    {OpenAIData(Some(cs), Some(is), Some(BlockCritical), Absent) :
        cs \in OpenAIComponentLists, is \in OpenAIIncidentLists}
    \cup
    {OpenAIData(top, Absent, Absent,
                Some(OpenAIPage(Some(cs), Some(is), Some(BlockCritical)))) :
        top \in {Absent, Some(<<>>)}, cs \in OpenAIComponentLists,
        is \in OpenAIIncidentLists}

\* documents in which the status block varies: at the top level, or under page
\* with the top-level member missing or empty
OpenAIStatusPayloads ==
    {OpenAIData(Some(cs), Absent, Some(b), page) :
        cs \in OpenAIUnmatchedLists, b \in OpenAIBlocks,
        page \in {Absent, Some(OpenAIPage(Absent, Absent, Some(BlockCritical)))}}
    \cup
    {OpenAIData(top, Absent, st, Some(OpenAIPage(Some(cs), Absent, pst))) :
        top \in {Absent, Some(<<>>)}, st \in {Absent, Some(EmptyBlock)},
        cs \in OpenAIUnmatchedLists,
        pst \in {Absent} \cup {Some(b) : b \in OpenAIBlocks}}

OpenAIPayloads ==
    OpenAIComponentPayloads \cup OpenAIStatusPayloads

OpenAIErrorDoc ==
    OpenAIData(Absent, Absent, Absent, Absent)

---------------------------------------------------------------------------
(* The parsers run on their own *)

Idle ==
    /\ services_data = <<>>
    /\ last_refresh = <<>>
    /\ pc = "off"
    /\ i = 0
    /\ caller = "none"
    /\ clicked = FALSE
    /\ now = 0
    /\ failed = {}
    /\ banner = <<>>

ParserInit ==
    /\ Idle
    /\ ppc = "ready"
    /\ call = [fn |-> "none", args |-> <<>>, n |-> 0, kept |-> FALSE]
    /\ ret = <<>>
    /\ active_inc = <<>>
    /\ cur = <<>>
    /\ raised = FALSE

Called(fn, args) ==
    [fn |-> fn, args |-> args, n |-> 0, kept |-> FALSE]

MapIndicatorCall ==
    /\ ppc = "ready"
    /\ \E tok \in Tokens :
        /\ call' = Called("map_indicator", <<tok>>)
        /\ ret' = <<map_indicator(tok)>>
    /\ ppc' = "returned"
    /\ UNCHANGED <<active_inc, cur, raised>>
    /\ UNCHANGED refreshVars

ParseIndicatorBlockCall ==
    /\ ppc = "ready"
    /\ \E data \in StatuspagePayloads :
        /\ call' = Called("parse_indicator_block", <<data>>)
        /\ ret' = <<parse_indicator_block(data)>>
    /\ ppc' = "returned"
    /\ UNCHANGED <<active_inc, cur, raised>>
    /\ UNCHANGED refreshVars

OpenAICall ==
    /\ ppc = "ready"
    /\ \E comp_key \in OpenAIKeys :
       \E outcome \in requests_get(OpenAIPayloads, OpenAIErrorDoc, FetchTimeout) :
        /\ call' = Called("check_openai_component", <<comp_key, outcome>>)
        /\ ret' = <<check_openai_component(comp_key, outcome)>>
    /\ ppc' = "returned"
    /\ UNCHANGED <<active_inc, cur, raised>>
    /\ UNCHANGED refreshVars

\* check_gcp_component up to the loop: the fetch and the decoding
GcpFetch ==
    /\ ppc = "ready"
    /\ \E component_name \in GcpTargets :
       \E outcome \in requests_get({<<>>}, <<>>, FetchTimeout) :
        /\ call' = Called("check_gcp_component", <<component_name, outcome>>)
        /\ IF outcome.kind # "response" \/ RaiseForStatusRaises(outcome)
                \/ JsonRaises(outcome)
           THEN ret' = <<GcpError>> /\ ppc' = "returned"
           ELSE ret' = <<>> /\ ppc' = "gcp_loop"
    /\ UNCHANGED <<active_inc, cur, raised>>
    /\ UNCHANGED refreshVars

\* `for inc in data`: the next incident of the decoded list
GcpNext ==
    /\ ppc = "gcp_loop"
    /\ call.n < MaxIncidents
    /\ \E inc \in GcpIncidents : cur' = <<inc>>
    /\ ppc' = "gcp_body"
    /\ call' = [call EXCEPT !.n = @ + 1, !.kept = FALSE]
    /\ UNCHANGED <<ret, active_inc, raised>>
    /\ UNCHANGED refreshVars

\* the loop body on that incident
GcpBody ==
    /\ ppc = "gcp_body"
    /\ LET r == GcpLoopBody(active_inc, cur[1], call.args[1], GcpNow)
       IN  /\ active_inc' = r.active_inc
           /\ raised' = r.raised
           /\ call' = [call EXCEPT !.kept = r.active_inc # active_inc]
           /\ IF r.raised
              THEN ret' = <<GcpError>> /\ ppc' = "returned"
              ELSE ret' = ret /\ ppc' = "gcp_loop"
    /\ cur' = <<>>
    /\ UNCHANGED refreshVars

\* the end of the list: the returns after the loop
GcpReturn ==
    /\ ppc = "gcp_loop"
    /\ ret' = <<GcpResult(call.args[1], active_inc)>>
    /\ ppc' = "returned"
    /\ UNCHANGED <<call, active_inc, cur, raised>>
    /\ UNCHANGED refreshVars

ParserNext ==
    \/ MapIndicatorCall
    \/ ParseIndicatorBlockCall
    \/ OpenAICall
    \/ GcpFetch
    \/ GcpNext
    \/ GcpBody
    \/ GcpReturn

ParserSpec ==
    ParserInit /\ [][ParserNext]_vars

---------------------------------------------------------------------------
(* Properties of the parsers *)

Decoded(outcome) ==
    outcome.kind = "response" /\ outcome.code \in 200..299 /\ outcome.body # Absent

IsBlank(text) ==
    \A k \in 1..Len(text) : text[k] \in {" ", "\t", "\n"}

\* C3: the indicator mapper sends none and operational to Operational, minor,
\* major and partial_outage to Degraded and every other token to Outage; in
\* the component-keyed parser a matched component with neither status nor
\* indicator, and a global status block with neither, give Operational.
C3_IndicatorTable ==
    /\ (call.fn = "map_indicator" /\ ret # <<>>) =>
        LET tok == call.args[1]
        IN  /\ ret[1] \in CanonicalStatus
            /\ tok \in {"none", "operational"} => ret[1] = OPERATIONAL
            /\ tok \in {"minor", "major", "partial_outage"} => ret[1] = DEGRADED
            /\ tok \notin {"none", "operational", "minor", "major", "partial_outage"}
                => ret[1] = OUTAGE
    /\ (call.fn = "check_openai_component" /\ ret # <<>> /\ Decoded(call.args[2])) =>
        LET data == call.args[2].body[1]
            comps == OpenAIComponents(data)
            k == OpenAIFindComponent(call.args[1], comps)
            block == OpenAIRootStatus(data)
        IN  /\ (k # 0 /\ comps[k].status = Absent /\ comps[k].indicator = Absent)
                => ret[1][1] = OPERATIONAL
            /\ (k = 0 /\ block.indicator = Absent /\ block.status = Absent)
                => ret[1][1] = OPERATIONAL

C3_Witness ==
    /\ call.fn = "check_openai_component"
    /\ ret # <<>>
    /\ Decoded(call.args[2])
    /\ LET comps == OpenAIComponents(call.args[2].body[1])
           k == OpenAIFindComponent(call.args[1], comps)
       IN  k # 0 /\ comps[k].status = Absent /\ comps[k].indicator = Absent
    /\ ret[1][1] = OPERATIONAL

\* C4: parse_indicator_block returns, for every raw status.indicator token
\* (absent included), the status map_indicator gives that token.
C4_StatuspageUsesMapper ==
    (call.fn = "parse_indicator_block" /\ ret # <<>>) =>
        LET data == call.args[1]
            ind == IF data.status = Absent THEN Absent ELSE data.status[1].indicator
        IN  ret[1][1] = (IF ind = Absent THEN OPERATIONAL ELSE map_indicator(ind[1]))

\* C5: the loop of check_gcp_component retains an incident if and only if its
\* end is absent or not strictly before now, its component list holds the
\* target name exactly, and "North America" is a substring of its description
\* or of one of its update texts; the list returned is the list retained.
C5_RetainIff ==
    [][/\ ppc = "gcp_body" =>
            LET inc == cur[1]
                timeOk ==
                    \/ inc.end = Absent
                    \/ ~(inc.end[1].local - inc.end[1].offset < GcpNow)
                compOk ==
                    /\ inc.components # Absent
                    /\ \E k \in 1..Len(inc.components[1]) :
                        inc.components[1][k].name = Some(call.args[1])
                regionOk ==
                    \/ /\ inc.external_desc # Absent
                       /\ Contains(NorthAmerica, inc.external_desc[1])
                    \/ /\ inc.updates # Absent
                       /\ \E k \in 1..Len(inc.updates[1]) :
                            /\ inc.updates[1][k].text # Absent
                            /\ Contains(NorthAmerica, inc.updates[1][k].text[1])
            IN  IF timeOk /\ compOk /\ regionOk
                THEN /\ Len(active_inc') = Len(active_inc) + 1
                     /\ SubSeq(active_inc', 1, Len(active_inc)) = active_inc
                ELSE active_inc' = active_inc
       /\ (ppc = "gcp_loop" /\ ppc' = "returned") => ret'[1][3] = active_inc
      ]_vars

C5_Witness ==
    /\ call.fn = "check_gcp_component"
    /\ ppc = "returned"
    /\ call.n = 2
    /\ Len(active_inc) = 1
    /\ ret[1] = GcpResult(call.args[1], active_inc)

\* C9: on a decoded payload, check_openai_component searches page.components
\* when the top-level components is empty or missing; when no component name
\* contains the key (case-insensitively) it returns the status mapped from
\* the global status block (top-level status, else page.status), no incident,
\* and "No global description" when the global description is missing or blank.
C9_PageAndGlobalFallback ==
    (call.fn = "check_openai_component" /\ ret # <<>> /\ Decoded(call.args[2])) =>
        LET key == call.args[1]
            data == call.args[2].body[1]
            topMissing == data.components = Absent \/ data.components[1] = <<>>
            pageComps ==
                IF data.page = Absent \/ data.page[1].components = Absent
                THEN <<>>
                ELSE data.page[1].components[1]
            searched == IF topMissing THEN pageComps ELSE data.components[1]
            named(c) == c.name # Absent /\ Contains(Lower(key), Lower(c.name[1]))
            hits == {k \in 1..Len(searched) : named(searched[k])}
            global ==
                IF data.status # Absent /\ data.status[1] # EmptyBlock
                THEN data.status[1]
                ELSE IF data.page = Absent \/ data.page[1].status = Absent
                THEN EmptyBlock
                ELSE data.page[1].status[1]
            raw ==
                IF global.indicator # Absent /\ global.indicator[1] # ""
                THEN global.indicator[1]
                ELSE IF global.status # Absent THEN global.status[1]
                ELSE "none"
            gdesc == IF global.description = Absent THEN <<>> ELSE global.description[1]
        IN  /\ hits = {} =>
                /\ ret[1][1] = map_indicator(raw)
                /\ ret[1][3] = <<>>
                /\ IsBlank(gdesc) => ret[1][2] = <<"No global description">>
                /\ ~IsBlank(gdesc) => ret[1][2] = Strip(gdesc)
            /\ (topMissing /\ hits # {}) =>
                ret[1] = OpenAIComponentResult(
                            pageComps[CHOOSE k \in hits : \A m \in hits : k <= m],
                            OpenAIIncidents(data))

C9_Witness ==
    /\ call.fn = "check_openai_component"
    /\ ret # <<>>
    /\ Decoded(call.args[2])
    /\ LET data == call.args[2].body[1]
       IN  /\ data.components = Some(<<>>)
           /\ data.status = Absent
           /\ data.page # Absent
           /\ data.page[1].components # Absent
           /\ Len(data.page[1].components[1]) = 1
           /\ data.page[1].status # Absent
           /\ data.page[1].status[1].indicator = Some("minor")
           /\ data.page[1].status[1].description = Some(TextBlank)
    /\ ret[1] = <<DEGRADED, <<"No global description">>, <<>>>>

\* C10: for an incident that passes the filter the text never fails and is
\* never empty: it is the description, else the last update's text (the
\* update list is then non-empty), else "No details"; the loop body never
\* raises and every entry of the list built and returned is non-empty.
C10_RetainedTextTotal ==
    [][/\ ~raised'
       /\ \A k \in 1..Len(active_inc') : active_inc'[k] # <<>>
       /\ (call'.fn = "check_gcp_component" /\ ret' # <<>>) =>
            \A k \in 1..Len(ret'[1][3]) : ret'[1][3][k] # <<>>
       /\ (ppc = "gcp_body" /\ call'.kept) =>
            LET inc == cur[1]
                desc == IF inc.external_desc = Absent THEN <<>> ELSE inc.external_desc[1]
                ups == IF inc.updates = Absent THEN <<>> ELSE inc.updates[1]
                last == IF ups[Len(ups)].text = Absent THEN <<>> ELSE ups[Len(ups)].text[1]
            IN  /\ desc = <<>> => Len(ups) > 0
                /\ active_inc'[Len(active_inc')] =
                    (IF desc # <<>> THEN desc
                     ELSE IF last # <<>> THEN last
                     ELSE <<"No details">>)
      ]_vars

C10_Witness ==
    /\ ppc = "gcp_loop"
    /\ call.kept
    /\ ~raised
    /\ active_inc # <<>>
    /\ active_inc[Len(active_inc)] = <<"No details">>

---------------------------------------------------------------------------
(* refresh_all_services and the script around it *)

MaxCycles ==
    2

\* the `services` dict of refresh_all_services, in insertion order
services ==
    <<[name |-> "GCP: Cloud Run", checker |-> "gcp", arg |-> "Cloud Run",
       url |-> "https://status.cloud.google.com/products/adnGEDEt9zWzs8uF1oKA/history"],
      [name |-> "GCP: Cloud Scheduler", checker |-> "gcp", arg |-> "Cloud Scheduler",
       url |-> "https://status.cloud.google.com/products/XXXscheduler/history"],
      [name |-> "GCP: Firebase", checker |-> "gcp", arg |-> "Firebase",
       url |-> "https://status.cloud.google.com/products/YYYfirebase/history"],
      [name |-> "GCP: Cloud Storage", checker |-> "gcp", arg |-> "Cloud Storage",
       url |-> "https://status.cloud.google.com/products/ZZZstorage/history"],
      [name |-> "GCP: Compute Engine", checker |-> "gcp", arg |-> "Compute Engine",
       url |-> "https://status.cloud.google.com/products/DixAowEQm45KgqXKP5tR/history"],
      [name |-> "GCP: IAM", checker |-> "gcp",
       arg |-> "Identity and Access Management",
       url |-> "https://status.cloud.google.com/products/adnGEDEt9zWzs8uF1oKA/history"],
      [name |-> "OpenAI: Chat", checker |-> "openai", arg |-> KeyChat,
       url |-> "https://status.openai.com/"],
      [name |-> "OpenAI: Embedding", checker |-> "openai", arg |-> KeyEmbedding,
       url |-> "https://status.openai.com/"],
      [name |-> "Netlify", checker |-> "none", arg |-> <<>>,
       url |-> "https://www.netlifystatus.com/"],
      [name |-> "Cloudflare", checker |-> "none", arg |-> <<>>,
       url |-> "https://www.cloudflarestatus.com/"]>>

\* total = len(services)
total ==
    Len(services)

ServiceNames ==
    {services[k].name : k \in 1..total}

\* what the three endpoints serve during a refresh
GcpServed ==
    {<<>>,
     <<[end |-> Absent, components |-> Some(<<[name |-> Some("Cloud Run")]>>),
        external_desc |-> Some(TextRegion), updates |-> Absent]>>}

OpenAIServed ==
    {OpenAIData(Some(<<[name |-> Some(NameChat), status |-> Some("partial_outage"),
                        indicator |-> Absent, description |-> Some(TextPadded),
                        id |-> Some(1)],
                       [name |-> Some(NameEmbeddings), status |-> Some("operational"),
                        indicator |-> Absent, description |-> Absent,
                        id |-> Some(2)]>>),
                Some(<<>>), Some(EmptyBlock), Absent),
     OpenAIData(Absent, Absent,
                Some([indicator |-> Some("none"), status |-> Absent,
                      description |-> Absent]),
                Absent)}

StatuspageServed ==
    {[status |-> Some([indicator |-> Some("major"), status |-> Absent,
                       description |-> Some(TextDown)]),
      incidents |-> Some(<<[name |-> Absent, shortlink |-> Absent]>>)],
     [status |-> Some([indicator |-> Some("none"), status |-> Absent,
                       description |-> Absent]),
      incidents |-> Absent]}

\* the requests.get call made for a service: the checkers pass timeout=10, the
\* fallback branch of the loop passes none
FetchOutcomes(cfg) ==
    IF cfg.checker = "gcp" THEN requests_get(GcpServed, <<>>, FetchTimeout)
    ELSE IF cfg.checker = "openai"
    THEN requests_get(OpenAIServed, OpenAIErrorDoc, FetchTimeout)
    ELSE requests_get(StatuspageServed, StatuspageErrorDoc, NoTimeout)

\* st.session_state.services_data[name] = {...}
Store(cfg, result) ==
    (cfg.name :> [status |-> result[1], message |-> result[2],
                  incidents |-> result[3], url |-> cfg.url,
                  last_checked |-> now])
        @@ services_data

\* the overall banner with the degraded test in the place of the outage test
OverallBanner_swapped(statuses) ==
    IF \A s \in statuses : s = OPERATIONAL THEN OPERATIONAL
    ELSE IF \E s \in statuses : s = DEGRADED THEN DEGRADED
    ELSE OUTAGE

\* the overall banner: success, error or warning
OverallBanner(statuses) ==
    IF \A s \in statuses : s = OPERATIONAL THEN OPERATIONAL
    ELSE IF \E s \in statuses : s = OUTAGE THEN OUTAGE
    ELSE DEGRADED

Init ==
    /\ services_data = <<>>
    /\ last_refresh = <<>>
    /\ pc = "button"
    /\ i = 0
    /\ caller = "none"
    /\ clicked = FALSE
    /\ now = 0
    /\ failed = {}
    /\ banner = <<>>
    /\ ppc = "off"
    /\ call = [fn |-> "none", args |-> <<>>, n |-> 0, kept |-> FALSE]
    /\ ret = <<>>
    /\ active_inc = <<>>
    /\ cur = <<>>
    /\ raised = FALSE

\* the call of refresh_all_services from `site`, up to its loop
BeginRefresh(site) ==
    /\ now < MaxCycles
    /\ now' = now + 1
    /\ caller' = site
    /\ i' = 0
    /\ failed' = {}
    /\ pc' = "loop"

\* if st.button("Refresh All"): refresh_all_services(); st.rerun()
ButtonCheck ==
    /\ pc = "button"
    /\ IF clicked
       THEN BeginRefresh("button")
       ELSE pc' = "firstload" /\ UNCHANGED <<i, caller, now, failed>>
    /\ UNCHANGED <<services_data, last_refresh, clicked, banner>>
    /\ UNCHANGED parserVars

\* if st.session_state.last_refresh is None: refresh_all_services()
FirstLoadCheck ==
    /\ pc = "firstload"
    /\ IF last_refresh = <<>>
       THEN BeginRefresh("firstload")
       ELSE pc' = "banner" /\ UNCHANGED <<i, caller, now, failed>>
    /\ UNCHANGED <<services_data, last_refresh, clicked, banner>>
    /\ UNCHANGED parserVars

\* One iteration of the loop of refresh_all_services: the service's checker, or
\* the fallback fetch and parse_indicator_block, then the store. An exception of
\* the fallback branch is caught nowhere: the script run dies of it, the session
\* state staying as it is. A fallback fetch that is never answered blocks the run.
CheckService ==
    /\ pc = "loop"
    /\ i < total
    /\ LET cfg == services[i + 1]
       IN  \E outcome \in FetchOutcomes(cfg) :
            /\ failed' = IF TransportFailed(outcome) THEN {cfg.name} ELSE {}
            /\ IF cfg.checker = "gcp"
               THEN /\ services_data' =
                        Store(cfg, check_gcp_component(cfg.arg, outcome, now))
                    /\ i' = i + 1
                    /\ pc' = pc
               ELSE IF cfg.checker = "openai"
               THEN /\ services_data' =
                        Store(cfg, check_openai_component(cfg.arg, outcome))
                    /\ i' = i + 1
                    /\ pc' = pc
               ELSE IF outcome.kind = "hang"
               THEN /\ pc' = "blocked"
                    /\ UNCHANGED <<services_data, i>>
               ELSE IF outcome.kind = "raise" \/ JsonRaises(outcome)
               THEN /\ pc' = "died"
                    /\ UNCHANGED <<services_data, i>>
               ELSE /\ services_data' =
                        Store(cfg, parse_indicator_block(outcome.body[1]))
                    /\ i' = i + 1
                    /\ pc' = pc
    /\ UNCHANGED <<last_refresh, caller, clicked, now, banner>>
    /\ UNCHANGED parserVars

\* after the loop: last_refresh = datetime.now(); the button's call is followed
\* by st.rerun(), which starts the script again with the button not pressed
RefreshEnd ==
    /\ pc = "loop"
    /\ i = total
    /\ last_refresh' = <<now>>
    /\ IF caller = "button"
       THEN pc' = "button" /\ clicked' = FALSE
       ELSE pc' = "banner" /\ clicked' = clicked
    /\ UNCHANGED <<services_data, i, caller, now, failed, banner>>
    /\ UNCHANGED parserVars

\* the overall banner, after which the run ends
Banner ==
    /\ pc = "banner"
    /\ banner' = <<OverallBanner({services_data[s].status : s \in DOMAIN services_data})>>
    /\ pc' = "idle"
    /\ UNCHANGED <<services_data, last_refresh, i, caller, clicked, now, failed>>
    /\ UNCHANGED parserVars

\* the user presses "Refresh All": the script runs again, on a cleared page
UserClick ==
    /\ pc \in {"idle", "died"}
    /\ now < MaxCycles
    /\ clicked' = TRUE
    /\ banner' = <<>>
    /\ pc' = "button"
    /\ UNCHANGED <<services_data, last_refresh, i, caller, now, failed>>
    /\ UNCHANGED parserVars

ScriptStep ==
    \/ ButtonCheck
    \/ FirstLoadCheck
    \/ CheckService
    \/ RefreshEnd
    \/ Banner

Next ==
    \/ ScriptStep
    \/ UserClick

Spec ==
    Init /\ [][Next]_vars

\* the script run takes its steps; the user need never press the button
FairSpec ==
    Init /\ [][Next]_vars /\ WF_vars(ScriptStep)

---------------------------------------------------------------------------
(* Properties of the refresh *)

CycleOver ==
    pc \notin {"loop", "blocked"} /\ now > 0

ObservedThisCycle(s) ==
    s \in DOMAIN services_data /\ services_data[s].last_checked = now

\* C1: in a refresh cycle a service whose fetch fails in transport gets an
\* Outage observation, and every other configured service still gets its own
\* observation in that cycle, for the GCP, OpenAI and Statuspage pipelines.
\* (Stated of the service fetched last: right after its fetch failed it has
\* its Outage observation, and a cycle that is over after it has observed
\* every configured service.)
C1_TransportFailureIsolated ==
    /\ \A s \in failed : ObservedThisCycle(s) /\ services_data[s].status = OUTAGE
    /\ (CycleOver /\ failed # {}) => \A s \in ServiceNames : ObservedThisCycle(s)

\* C2: the overall status shown is Outage if an observation is Outage, else
\* Degraded if one is Degraded, else Operational.
C2_WorstOf ==
    banner # <<>> =>
        LET statuses == {services_data[s].status : s \in DOMAIN services_data}
        IN  /\ OUTAGE \in statuses => banner[1] = OUTAGE
            /\ (OUTAGE \notin statuses /\ DEGRADED \in statuses) => banner[1] = DEGRADED
            /\ (OUTAGE \notin statuses /\ DEGRADED \notin statuses) =>
                    banner[1] = OPERATIONAL

C2_Witness ==
    /\ banner = <<DEGRADED>>
    /\ DOMAIN services_data = ServiceNames
    /\ \E s \in ServiceNames : services_data[s].status = DEGRADED
    /\ \E s \in ServiceNames : services_data[s].status = OPERATIONAL

\* C6: every observation stored in the services mapping has a non-empty message.
C6_MessageNeverEmpty ==
    \A s \in DOMAIN services_data : services_data[s].message # <<>>

RefreshCompleted ==
    /\ pc \notin {"loop", "blocked"}
    /\ last_refresh = <<now>>
    /\ \A s \in ServiceNames : ObservedThisCycle(s)

\* C7: every fetch of a refresh cycle carries a finite timeout, so a cycle once
\* started runs to completion (an observation stored for every configured
\* service, the refresh timestamp set) even when a provider never answers.
\* (A run that dies of an exception is C1's matter and is let pass here: what
\* is asked is that the cycle does not stay unfinished for ever.)
C7_RefreshCompletes ==
    (pc = "loop") ~> (RefreshCompleted \/ pc = "died")

\* C8: whenever no refresh is in progress the mapping holds exactly one
\* observation per configured service, all produced by the most recent cycle.
C8_RebuiltInFull ==
    CycleOver =>
        /\ DOMAIN services_data = ServiceNames
        /\ \A s \in ServiceNames : services_data[s].last_checked = now

====
